---- MODULE Spec2Model ----
(***************************************************************************)
(* A model of vphs (src/main.go): the /video range-request handler, the    *)
(* startup sequence with its background listener, and the gateway-variant  *)
(* LAN address resolver.                                                   *)
(*                                                                         *)
(* Strings are sequences of one-character strings.  File bytes are         *)
(* integers; the file's i-th byte is distinct from every other byte, so a  *)
(* body taken from the wrong offset never equals the right one.            *)
(***************************************************************************)
EXTENDS Integers, Sequences, FiniteSets, TLC

VARIABLES
    file,         \* content of the file at videoFilePath (sequence of bytes)
    openHandles,  \* descriptors of the file currently open in the process
    req,          \* per request: position in videoHandler and its locals
    resp,         \* per request: the http.ResponseWriter as the client sees it
    mainSt,       \* main(): position, flags, output, background listener
    net           \* host network state and the resolver's last result

vars == <<file, openHandles, req, resp, mainSt, net>>

--------------------------------------------------------------------------
(* Bounds of the model *)

MaxFileLen == 3
MaxBody == 3

--------------------------------------------------------------------------
(* strings, strconv *)

BytesPrefix == <<"b", "y", "t", "e", "s", "=">>

Digits == {"0", "1", "2", "3", "4", "5", "6", "7", "8", "9"}

DigitVal(c) ==
    CASE c = "0" -> 0 [] c = "1" -> 1 [] c = "2" -> 2 [] c = "3" -> 3
      [] c = "4" -> 4 [] c = "5" -> 5 [] c = "6" -> 6 [] c = "7" -> 7
      [] c = "8" -> 8 [] c = "9" -> 9

HasPrefix(s, p) == Len(s) >= Len(p) /\ SubSeq(s, 1, Len(p)) = p

\* strings.TrimPrefix: s without the leading p, or s itself when p does not lead it
TrimPrefix(s, p) == IF HasPrefix(s, p) THEN SubSeq(s, Len(p) + 1, Len(s)) ELSE s

\* strings.Split(s, sep) for a one-character sep: n separators give n+1 parts
RECURSIVE Split(_, _)
Split(s, sep) ==
    IF \E i \in 1..Len(s) : s[i] = sep
    THEN LET i == CHOOSE k \in 1..Len(s) :
                      s[k] = sep /\ \A j \in 1..(k - 1) : s[j] # sep
         IN  <<SubSeq(s, 1, i - 1)>> \o Split(SubSeq(s, i + 1, Len(s)), sep)
    ELSE <<s>>

RECURSIVE DecimalValue(_)
DecimalValue(s) ==
    IF s = <<>> THEN 0
    ELSE DecimalValue(SubSeq(s, 1, Len(s) - 1)) * 10 + DigitVal(s[Len(s)])

DigitChar(d) ==
    CASE d = 0 -> "0" [] d = 1 -> "1" [] d = 2 -> "2" [] d = 3 -> "3"
      [] d = 4 -> "4" [] d = 5 -> "5" [] d = 6 -> "6" [] d = 7 -> "7"
      [] d = 8 -> "8" [] d = 9 -> "9"

\* strconv.FormatInt(n, 10) and %d for n >= 0
RECURSIVE Decimal(_)
Decimal(n) == IF n < 10 THEN <<DigitChar(n)>>
              ELSE Decimal(n \div 10) \o <<DigitChar(n % 10)>>

\* A variant that reads the leading digits and stops at the first other
\* character, as C's atoi does.
ParseIntLeadingDigits(s) ==
    LET t == IF s # <<>> /\ s[1] \in {"+", "-"} THEN Tail(s) ELSE s
        n == IF \E i \in 1..Len(t) : t[i] \notin Digits
             THEN (CHOOSE k \in 1..Len(t) :
                      t[k] \notin Digits /\ \A j \in 1..(k - 1) : t[j] \in Digits) - 1
             ELSE Len(t)
    IN  IF n = 0 THEN [ok |-> FALSE, val |-> 0]
        ELSE [ok |-> TRUE,
              val |-> IF s[1] = "-" THEN 0 - DecimalValue(SubSeq(t, 1, n))
                      ELSE DecimalValue(SubSeq(t, 1, n))]

\* strconv.ParseInt(s, 10, 64): an optional sign, then one or more decimal
\* digits and nothing else.  The int64 range error needs 19 digits and is
\* beyond the header lengths explored here.
ParseInt(s) ==
    IF s = <<>> THEN [ok |-> FALSE, val |-> 0]
    ELSE LET t == IF s[1] \in {"+", "-"} THEN Tail(s) ELSE s
         IN  IF t = <<>> \/ \E i \in 1..Len(t) : t[i] \notin Digits
             THEN [ok |-> FALSE, val |-> 0]
             ELSE [ok |-> TRUE,
                   val |-> IF s[1] = "-" THEN 0 - DecimalValue(t)
                           ELSE DecimalValue(t)]

--------------------------------------------------------------------------
(* http.ResponseWriter as the handler uses it *)

NoHeaders == [k \in {} |-> 0]

\* w.Header().Set(k, v)
SetHeader(h, k, v) == [x \in (DOMAIN h) \cup {k} |-> IF x = k THEN v ELSE h[x]]

DelHeader(h, k) == [x \in (DOMAIN h) \ {k} |-> h[x]]

NewResponse ==
    [wroteHeader |-> FALSE,   \* the status line and headers are on the wire
     status      |-> 0,       \* the status sent (0: none yet)
     header      |-> NoHeaders, \* w.Header(), the handler's header map
     sent        |-> NoHeaders, \* the headers sent with the status line
     body        |-> <<>>,    \* file bytes written by io.Copy / io.CopyN
     errText     |-> ""]      \* message written by http.Error

\* w.WriteHeader(code): the first call sends the status line with a snapshot
\* of the header map; a later call is superfluous and changes nothing.
\* net/http drops a Content-Length that is negative.
WriteHeader(w, code) ==
    IF w.wroteHeader THEN w
    ELSE [w EXCEPT !.wroteHeader = TRUE,
                   !.status = code,
                   !.sent = IF "Content-Length" \in DOMAIN w.header
                               /\ w.header["Content-Length"] < 0
                            THEN DelHeader(w.header, "Content-Length")
                            ELSE w.header]

\* http.Error(w, msg, code): sets the plain-text content type on the header
\* map, calls WriteHeader(code) and writes msg.
HttpError(w, msg, code) ==
    LET w1 == [w EXCEPT !.header =
                   SetHeader(SetHeader(@, "Content-Type", "text/plain; charset=utf-8"),
                             "X-Content-Type-Options", "nosniff")]
    IN  [WriteHeader(w1, code) EXCEPT !.errText = msg]

\* w.Write(bytes) as io.Copy/io.CopyN call it: the first write sends the
\* header with status 200 when the handler has not sent one.
WriteBody(w, bytes) ==
    IF bytes = <<>> THEN w
    ELSE [WriteHeader(w, 200) EXCEPT !.body = @ \o bytes]

\* The server completes the response when the handler returns: a handler
\* that never wrote gets its header sent with status 200.
FinishRequest(w) == WriteHeader(w, 200)

--------------------------------------------------------------------------
(* os.File *)

Min(a, b) == IF a < b THEN a ELSE b

\* os.Open: the lowest descriptor not in use
NewHandle(open) == CHOOSE fd \in 1..(Cardinality(open) + 1) :
                      fd \notin open /\ \A g \in 1..(fd - 1) : g \in open

DeferredCloseSkipped(open, fd) == open

\* defer file.Close()
DeferredClose(open, fd) == open \ {fd}

\* fileInfo.Size()
StatSize(f) == Len(f)

\* A reader that was never positioned: it yields the first n bytes.
ReadFromStart(f, off, n) ==
    IF n <= 0 THEN <<>> ELSE SubSeq(f, 1, Min(n, Len(f)))

\* The bytes a reader positioned at off yields when asked for at most n:
\* bytes off .. off+n-1 (0-based), cut at end of file; nothing when n <= 0.
ReadAt(f, off, n) ==
    IF n <= 0 \/ off >= Len(f) THEN <<>>
    ELSE SubSeq(f, off + 1, Min(off + n, Len(f)))

--------------------------------------------------------------------------
(* videoHandler: Range parsing *)

\* rangeParts := strings.Split(strings.TrimPrefix(rangeHeader, "bytes="), "-")
RangeParts(rangeHeader) == Split(TrimPrefix(rangeHeader, BytesPrefix), "-")

\* start, err := strconv.ParseInt(rangeParts[0], 10, 64)
RangeStart(parts) == ParseInt(parts[1])

RangeEndLenient(parts, fileSize) ==
    IF Len(parts) > 1 /\ parts[2] # <<>> /\ ParseInt(parts[2]).ok
    THEN ParseInt(parts[2])
    ELSE [ok |-> TRUE, val |-> fileSize - 1]

\* end := fileSize - 1, replaced by the parsed rangeParts[1] when that part
\* is present and non-empty
RangeEnd(parts, fileSize) ==
    IF Len(parts) > 1 /\ parts[2] # <<>>
    THEN ParseInt(parts[2])
    ELSE [ok |-> TRUE, val |-> fileSize - 1]

ClampEndOffByOne(end, fileSize) == IF end > fileSize THEN fileSize ELSE end

\* if end > fileSize-1 { end = fileSize - 1 }
ClampEnd(end, fileSize) == IF end > fileSize - 1 THEN fileSize - 1 ELSE end

\* fmt.Sprintf("bytes %d-%d/%d", start, end, fileSize)
ContentRange(start, end, fileSize) ==
    [unit |-> "bytes", start |-> start, end |-> end, size |-> fileSize]

\* the three w.Header().Set calls of the range branch
RangeHeaders(w, start, end, fileSize) ==
    [w EXCEPT !.header =
        SetHeader(SetHeader(SetHeader(@,
            "Content-Range", ContentRange(start, end, fileSize)),
            "Content-Length", end - start + 1),
            "Accept-Ranges", "bytes")]

FullHeadersNoAcceptRanges(w, fileSize) ==
    [w EXCEPT !.header = SetHeader(@, "Content-Length", fileSize)]

\* the two w.Header().Set calls of the non-range branch
FullHeaders(w, fileSize) ==
    [w EXCEPT !.header =
        SetHeader(SetHeader(@, "Content-Length", fileSize), "Accept-Ranges", "bytes")]

--------------------------------------------------------------------------
(* Inputs: files and Range headers *)

\* A file of n bytes; byte i (0-based) has the value 100 + i.
FileOfLen(n) == [i \in 1..n |-> 99 + i]

Files == {FileOfLen(n) : n \in 0..MaxFileLen}

HeaderChars == {"0", "1", "2", "-", ",", "a", "+"}

\* Every string over HeaderChars of length at most MaxBody, with and without
\* the bytes= prefix; the empty string is the absent Range header.
EnumeratedHeaders ==
    LET bodies == UNION {[1..n -> HeaderChars] : n \in 0..MaxBody}
    IN  bodies \cup {BytesPrefix \o b : b \in bodies}

\* Headers named in the documentation of the handler, and longer ones of the
\* same shapes.
ExampleHeaders ==
    {<<"b", "y", "t", "e", "s", "=", "0", "-">>,
     <<"b", "y", "t", "e", "s", "=", "0", "-", "9">>,
     <<"b", "y", "t", "e", "s", "=", "1", "-", "2", "0">>,
     <<"b", "y", "t", "e", "s", "=", "5", "0", "0", "-", "2", "0", "0", "0">>,
     <<"b", "y", "t", "e", "s", "=", "a", "b", "c", "-", "1", "0", "0">>,
     <<"b", "y", "t", "e", "s", "=", "+", "1", "-", "2">>,
     <<"b", "y", "t", "e", "s", "=", "0", "-", "1", "-", "a">>,
     <<"b", "y", "t", "e", "s", "=", "0", "-", "1", "0", ",", "2", "0", "-", "3", "0">>,
     <<"b", "y", "t", "e", "s", "=", "0", "-", "1", ",", "2", "-", "2">>,
     <<"b", "y", "t", "e", "s", "=", "0", "-", ",", "1", "-", "2">>,
     <<"b", "y", "t", "e", "s", "=", "-", "1", ",", "0", "-", "0">>,
     <<"b", "y", "t", "e", "s", "=", "1", "-", ",", "-", "1">>}

Headers == EnumeratedHeaders \cup ExampleHeaders

--------------------------------------------------------------------------
(* videoHandler *)

IdleRequest ==
    [pc       |-> "idle",
     header   |-> <<>>,    \* r.Header.Get("Range")
     handle   |-> 0,       \* file (0: none)
     fileSize |-> 0,
     start    |-> 0,
     end      |-> 0,
     offset   |-> 0,       \* read position of the handle
     fail     |-> "none"]  \* the I/O failure the environment injected

InFlight(r) == req[r].pc # "idle"

\* A client sends GET /video with Range header h (<<>>: no Range header).
Request(r, H) ==
    /\ req[r].pc = "idle"
    /\ \E h \in H :
          req' = [req EXCEPT ![r] = [IdleRequest EXCEPT !.pc = "open", !.header = h]]
    /\ resp' = [resp EXCEPT ![r] = NewResponse]
    /\ UNCHANGED <<file, openHandles, mainSt, net>>

\* os.Open fails: 500, return; there is no handle to close.
OpenFail(r) ==
    /\ req[r].pc = "open"
    /\ resp' = [resp EXCEPT ![r] =
                  FinishRequest(HttpError(@, "Failed to open video file", 500))]
    /\ req' = [req EXCEPT ![r].pc = "done", ![r].fail = "open"]
    /\ UNCHANGED <<file, openHandles, mainSt, net>>

\* os.Open succeeds; defer file.Close() is registered.
OpenOk(r) ==
    /\ req[r].pc = "open"
    /\ LET fd == NewHandle(openHandles)
       IN  /\ openHandles' = openHandles \cup {fd}
           /\ req' = [req EXCEPT ![r].pc = "stat", ![r].handle = fd, ![r].offset = 0]
    /\ UNCHANGED <<file, resp, mainSt, net>>

\* file.Stat fails: 500, return (deferred Close runs).
StatFail(r) ==
    /\ req[r].pc = "stat"
    /\ resp' = [resp EXCEPT ![r] =
                  FinishRequest(HttpError(@, "Failed to get file information", 500))]
    /\ openHandles' = DeferredClose(openHandles, req[r].handle)
    /\ req' = [req EXCEPT ![r].pc = "done", ![r].handle = 0, ![r].fail = "stat"]
    /\ UNCHANGED <<file, mainSt, net>>

\* file.Stat succeeds: fileSize := fileInfo.Size()
StatOk(r) ==
    /\ req[r].pc = "stat"
    /\ req' = [req EXCEPT ![r].pc = "range", ![r].fileSize = StatSize(file)]
    /\ UNCHANGED <<file, openHandles, resp, mainSt, net>>

\* Non-empty Range header whose start or end does not parse: 400, return.
RangeMalformed(r) ==
    /\ req[r].pc = "range"
    /\ req[r].header # <<>>
    /\ LET parts == RangeParts(req[r].header)
       IN  ~RangeStart(parts).ok \/ ~RangeEnd(parts, req[r].fileSize).ok
    /\ resp' = [resp EXCEPT ![r] =
                  FinishRequest(HttpError(@, "Invalid Range request", 400))]
    /\ openHandles' = DeferredClose(openHandles, req[r].handle)
    /\ req' = [req EXCEPT ![r].pc = "done", ![r].handle = 0]
    /\ UNCHANGED <<file, mainSt, net>>

\* Non-empty Range header that parses: clamp end, set the three headers and
\* send status 206.
RangeAccepted(r) ==
    /\ req[r].pc = "range"
    /\ req[r].header # <<>>
    /\ LET parts == RangeParts(req[r].header)
           s     == RangeStart(parts)
           e     == RangeEnd(parts, req[r].fileSize)
           end   == ClampEnd(e.val, req[r].fileSize)
       IN  /\ s.ok /\ e.ok
           /\ req' = [req EXCEPT ![r].pc = "seek", ![r].start = s.val, ![r].end = end]
           /\ resp' = [resp EXCEPT ![r] =
                         WriteHeader(RangeHeaders(@, s.val, end, req[r].fileSize), 206)]
    /\ UNCHANGED <<file, openHandles, mainSt, net>>

\* file.Seek(start, io.SeekStart) fails: http.Error(500) after the 206 header
\* was sent, return.
SeekFail(r) ==
    /\ req[r].pc = "seek"
    /\ resp' = [resp EXCEPT ![r] =
                  FinishRequest(HttpError(@, "Failed to seek file", 500))]
    /\ openHandles' = DeferredClose(openHandles, req[r].handle)
    /\ req' = [req EXCEPT ![r].pc = "done", ![r].handle = 0, ![r].fail = "seek"]
    /\ UNCHANGED <<file, mainSt, net>>

\* file.Seek succeeds.
SeekOk(r) ==
    /\ req[r].pc = "seek"
    /\ req' = [req EXCEPT ![r].pc = "copyN", ![r].offset = req[r].start]
    /\ UNCHANGED <<file, openHandles, resp, mainSt, net>>

\* io.CopyN(w, file, end-start+1), return.  The client may disconnect after
\* any number k of bytes; the error of CopyN is not looked at.
CopyN(r) ==
    /\ req[r].pc = "copyN"
    /\ LET bytes == ReadAt(file, req[r].offset, req[r].end - req[r].start + 1)
       IN  \E k \in 0..Len(bytes) :
              /\ resp' = [resp EXCEPT ![r] =
                            FinishRequest(WriteBody(@, SubSeq(bytes, 1, k)))]
              /\ req' = [req EXCEPT ![r].pc = "done", ![r].handle = 0,
                                    ![r].offset = @ + k,
                                    ![r].fail = IF k < Len(bytes) THEN "client" ELSE "none"]
    /\ openHandles' = DeferredClose(openHandles, req[r].handle)
    /\ UNCHANGED <<file, mainSt, net>>

\* Empty Range header: set Content-Length and Accept-Ranges, io.Copy(w, file),
\* return.  The status is the implicit 200.
CopyAll(r) ==
    /\ req[r].pc = "range"
    /\ req[r].header = <<>>
    /\ LET bytes == ReadAt(file, req[r].offset, Len(file))
       IN  \E k \in 0..Len(bytes) :
              /\ resp' = [resp EXCEPT ![r] =
                            FinishRequest(WriteBody(FullHeaders(@, req[r].fileSize),
                                                    SubSeq(bytes, 1, k)))]
              /\ req' = [req EXCEPT ![r].pc = "done", ![r].handle = 0,
                                    ![r].offset = @ + k,
                                    ![r].fail = IF k < Len(bytes) THEN "client" ELSE "none"]
    /\ openHandles' = DeferredClose(openHandles, req[r].handle)
    /\ UNCHANGED <<file, mainSt, net>>

\* The client has read the response; the connection serves its next request.
NextRequest(r) ==
    /\ req[r].pc = "done"
    /\ req' = [req EXCEPT ![r] = IdleRequest]
    /\ resp' = [resp EXCEPT ![r] = NewResponse]
    /\ UNCHANGED <<file, openHandles, mainSt, net>>

\* The file is replaced on disk by one of another length while no request
\* is being served and no response is waiting to be read.
Mutate ==
    /\ \A r \in DOMAIN req : ~InFlight(r)
    /\ \E f \in Files : f # file /\ file' = f
    /\ UNCHANGED <<openHandles, req, resp, mainSt, net>>

HandlerStep ==
    \/ \E r \in DOMAIN req : OpenFail(r)
    \/ \E r \in DOMAIN req : OpenOk(r)
    \/ \E r \in DOMAIN req : StatFail(r)
    \/ \E r \in DOMAIN req : StatOk(r)
    \/ \E r \in DOMAIN req : RangeMalformed(r)
    \/ \E r \in DOMAIN req : RangeAccepted(r)
    \/ \E r \in DOMAIN req : SeekFail(r)
    \/ \E r \in DOMAIN req : SeekOk(r)
    \/ \E r \in DOMAIN req : CopyN(r)
    \/ \E r \in DOMAIN req : CopyAll(r)
    \/ \E r \in DOMAIN req : NextRequest(r)

NoMain == [pc |-> "off"]
NoNet == [pc |-> "off"]

Init ==
    /\ file \in Files
    /\ openHandles = {}
    /\ req = [r \in {1} |-> IdleRequest]
    /\ resp = [r \in {1} |-> NewResponse]
    /\ mainSt = NoMain
    /\ net = NoNet

Next ==
    \/ \E r \in DOMAIN req : Request(r, Headers)
    \/ HandlerStep
    \/ Mutate

Spec == Init /\ [][Next]_vars

--------------------------------------------------------------------------
(* Concurrent requests: the server runs videoHandler once per request, each *)
(* in its own goroutine, interleaved at the I/O calls.                      *)

NumRequests == 2

ConcFile == FileOfLen(2)

ConcHeaders == {<<>>, <<"b", "y", "t", "e", "s", "=", "0", "-", "1">>, <<"b", "y", "t", "e", "s", "=", "a", "-", "1">>, <<"b", "y", "t", "e", "s", "=", "1", "-">>}

InitConc ==
    /\ file = ConcFile
    /\ openHandles = {}
    /\ req = [r \in 1..NumRequests |-> IdleRequest]
    /\ resp = [r \in 1..NumRequests |-> NewResponse]
    /\ mainSt = NoMain
    /\ net = NoNet

NextConc ==
    \/ \E r \in DOMAIN req : Request(r, ConcHeaders)
    \/ HandlerStep

SpecConc == InitConc /\ [][NextConc]_vars

\* Two requests in flight: the first carries any header, the second asks
\* for bytes 0-1.
PairHeaders == {<<"b", "y", "t", "e", "s", "=", "0", "-", "1">>}

InitPair ==
    /\ file = ConcFile
    /\ openHandles = {}
    /\ req = [r \in 1..2 |-> IdleRequest]
    /\ resp = [r \in 1..2 |-> NewResponse]
    /\ mainSt = NoMain
    /\ net = NoNet

NextPair ==
    \/ Request(1, Headers)
    \/ Request(2, PairHeaders)
    \/ HandlerStep

SpecPair == InitPair /\ [][NextPair]_vars

--------------------------------------------------------------------------
(* net.IP, net.IPNet and the gateway-variant resolver *)

MaxIfaces == 2

\* An IPv4 address is its four octets; an IPv6 address only carries a tag.
V4(a, b, c, d) == [fam |-> "v4", oct |-> <<a, b, c, d>>]
V6(tag) == [fam |-> "v6", oct |-> <<tag>>]

\* One octet of net.CIDRMask(bits, 32)
MaskOctet(bits, i) ==
    LET rest == bits - 8 * (i - 1)
    IN  IF rest >= 8 THEN 255
        ELSE IF rest <= 0 THEN 0
        ELSE 256 - (2 ^ (8 - rest))

\* x & m for an octet x and a contiguous mask octet m
AndMask(x, m) == x - (x % (256 - m))

\* An interface address: kind "IPNet" (*net.IPNet, an address with its
\* mask) or "IPAddr" (any other net.Addr implementation).
IPNet(ip, bits) == [kind |-> "IPNet", ip |-> ip, bits |-> bits]
IPAddr(ip) == [kind |-> "IPAddr", ip |-> ip, bits |-> 0]

IsV4(ip) == ip.fam = "v4"

IsLoopback(ip) ==
    IF IsV4(ip) THEN ip.oct[1] = 127 ELSE ip.oct = <<"::1">>

IsUnspecified(ip) ==
    IF IsV4(ip) THEN ip.oct = <<0, 0, 0, 0>> ELSE ip.oct = <<"::">>

IsMulticast(ip) ==
    IF IsV4(ip) THEN ip.oct[1] >= 224 /\ ip.oct[1] <= 239 ELSE ip.oct = <<"ff02::1">>

IsLinkLocalUnicast(ip) ==
    IF IsV4(ip) THEN ip.oct[1] = 169 /\ ip.oct[2] = 254 ELSE ip.oct = <<"fe80::1">>

\* net.IP.IsGlobalUnicast
IsGlobalUnicast(ip) ==
    /\ ~(IsV4(ip) /\ ip.oct = <<255, 255, 255, 255>>)
    /\ ~IsUnspecified(ip)
    /\ ~IsLoopback(ip)
    /\ ~IsMulticast(ip)
    /\ ~IsLinkLocalUnicast(ip)

\* net.IPNet.Contains for an IPv4 gateway: false when the families differ,
\* else the masked octets agree.
Contains(a, gw) ==
    /\ IsV4(a.ip) /\ IsV4(gw)
    /\ \A i \in 1..4 :
          AndMask(a.ip.oct[i], MaskOctet(a.bits, i)) = AndMask(gw.oct[i], MaskOctet(a.bits, i))

AddrUsableNoUnicastTest(a) ==
    /\ a.kind = "IPNet"
    /\ IsV4(a.ip)
    /\ ~IsLoopback(a.ip)

\* The address passes the type assertion and the IPv4 / global-unicast /
\* loopback filter.
AddrUsable(a) ==
    /\ a.kind = "IPNet"
    /\ IsV4(a.ip)
    /\ IsGlobalUnicast(a.ip)
    /\ ~IsLoopback(a.ip)

NotFound == [ok |-> FALSE, ip |-> V4(0, 0, 0, 0)]

\* for _, addr := range addrs: the first usable address whose subnet
\* contains the gateway
RECURSIVE ScanAddrs(_, _)
ScanAddrs(addrs, gw) ==
    IF addrs = <<>> THEN NotFound
    ELSE IF AddrUsable(Head(addrs)) /\ Contains(Head(addrs), gw)
         THEN [ok |-> TRUE, ip |-> Head(addrs).ip]
         ELSE ScanAddrs(Tail(addrs), gw)

\* for _, iface := range interfaces: interfaces that are down, and
\* interfaces whose Addrs() fails, are skipped
RECURSIVE ScanInterfaces(_, _)
ScanInterfaces(ifs, gw) ==
    IF ifs = <<>> THEN NotFound
    ELSE LET i == Head(ifs)
         IN  IF ~i.up THEN ScanInterfaces(Tail(ifs), gw)
             ELSE IF i.addrsErr THEN ScanInterfaces(Tail(ifs), gw)
             ELSE LET m == ScanAddrs(i.addrs, gw)
                  IN  IF m.ok THEN m ELSE ScanInterfaces(Tail(ifs), gw)

\* getLocalIPForGateway on host h: an error when net.Interfaces() fails or
\* nothing matches
getLocalIPForGateway(h, gw) ==
    IF h.ifacesErr THEN NotFound ELSE ScanInterfaces(h.ifaces, gw)

\* localIPString on host h: an error when gateway discovery fails, else
\* the address found for the gateway
localIPString(h) ==
    IF ~h.gwOk THEN NotFound ELSE getLocalIPForGateway(h, h.gw)

\* net.IP.String() of an IPv4 address: dotted decimal
IPString(ip) ==
    Decimal(ip.oct[1]) \o <<".">> \o Decimal(ip.oct[2]) \o <<".">>
        \o Decimal(ip.oct[3]) \o <<".">> \o Decimal(ip.oct[4])

(* Inputs of the resolver *)

Lan1 == IPNet(V4(192, 168, 1, 10), 24)
Lan2 == IPNet(V4(192, 168, 1, 20), 24)
OtherNet == IPNet(V4(10, 0, 0, 5), 8)
Loopback == IPNet(V4(127, 0, 0, 1), 8)
LinkLocal == IPNet(V4(169, 254, 1, 1), 16)
Unspecified == IPNet(V4(0, 0, 0, 0), 0)
LinkLocal6 == IPNet(V6("fe80::1"), 64)
LanAsIPAddr == IPAddr(V4(192, 168, 1, 30))

AddrLists ==
    {<<>>, <<Lan1>>, <<Loopback>>, <<LinkLocal6, Lan2>>, <<LinkLocal>>,
     <<OtherNet, Unspecified>>, <<LanAsIPAddr, OtherNet>>}

Gateways == {V4(192, 168, 1, 1), V4(169, 254, 0, 1), V4(10, 9, 9, 9)}

Interfaces ==
    [up : BOOLEAN, addrsErr : BOOLEAN, addrs : AddrLists]

InterfaceLists == UNION {[1..n -> Interfaces] : n \in 0..MaxIfaces}

NoResult == [called |-> FALSE, ok |-> FALSE, ip |-> V4(0, 0, 0, 0)]

InitResolver ==
    /\ file = <<>>
    /\ openHandles = {}
    /\ req = <<>>
    /\ resp = <<>>
    /\ mainSt = NoMain
    /\ \E ifs \in InterfaceLists, gw \in Gateways :
          net = [pc |-> "ready", gwOk |-> TRUE, gw |-> gw, ifacesErr |-> FALSE,
                 ifaces |-> ifs, result |-> NoResult]

\* gateway.DiscoverGateway fails before the call
GatewayLost ==
    /\ net.pc = "ready" /\ net.gwOk
    /\ net' = [net EXCEPT !.gwOk = FALSE]
    /\ UNCHANGED <<file, openHandles, req, resp, mainSt>>

\* net.Interfaces() fails during the call
InterfacesUnreadable ==
    /\ net.pc = "ready" /\ ~net.ifacesErr
    /\ net' = [net EXCEPT !.ifacesErr = TRUE]
    /\ UNCHANGED <<file, openHandles, req, resp, mainSt>>

\* localIPString() is called
Resolve ==
    /\ net.pc = "ready"
    /\ LET m == localIPString(net)
       IN  net' = [net EXCEPT !.pc = "resolved",
                              !.result = [called |-> TRUE, ok |-> m.ok, ip |-> m.ip]]
    /\ UNCHANGED <<file, openHandles, req, resp, mainSt>>

NextResolver == GatewayLost \/ InterfacesUnreadable \/ Resolve

SpecResolver == InitResolver /\ [][NextResolver]_vars

--------------------------------------------------------------------------
(* main: startup validation, the background listener, the diagnostics *)

DefaultPort == 9090

\* Values of the -p / --port flag
Ports == {0, 1, DefaultPort, 65535, 65536}

\* What os.Stat(videoFilePath) finds
PathStates == {"exists", "missing", "unreadable"}

\* Hosts main may start on
SampleHosts ==
    {[pc |-> "ready", gwOk |-> g, gw |-> V4(192, 168, 1, 1), ifacesErr |-> FALSE,
      ifaces |-> ifs, result |-> NoResult] :
        g \in BOOLEAN,
        ifs \in {<<[up |-> TRUE, addrsErr |-> FALSE, addrs |-> <<Loopback>>],
                   [up |-> TRUE, addrsErr |-> FALSE, addrs |-> <<Lan1>>]>>,
                 <<[up |-> TRUE, addrsErr |-> FALSE, addrs |-> <<OtherNet>>]>>}}

URL(host, port) == [host |-> host, port |-> port]
NoURL == URL(<<>>, 0)

Localhost == <<"l", "o", "c", "a", "l", "h", "o", "s", "t">>

\* The lines main prints after starting the listener, in order
Diagnostics == <<"rule", "video", "local", "lan", "rule", "scan", "qr", "press">>

\* What one diagnostic shows: the local URL, the LAN URL, the QR payload
DiagnosticURL(m, item) ==
    CASE item = "local" -> URL(Localhost, m.port)
      [] item \in {"lan", "qr"} -> m.accessURL
      [] OTHER -> NoURL

Line(src, item, url) == [src |-> src, item |-> item, url |-> url]

Alive == ~mainSt.exited

\* os.Exit(code)
Exit(m, code) == [m EXCEPT !.exited = TRUE, !.code = code]

InitMain ==
    /\ file = <<>>
    /\ openHandles = {}
    /\ req = <<>>
    /\ resp = <<>>
    /\ net \in SampleHosts
    /\ \E p \in Ports, a \in BOOLEAN, f \in PathStates :
          mainSt = [pc        |-> "port",
                    port      |-> p,       \* serverPort after flag.Parse
                    hasPath   |-> a,       \* len(flag.Args()) > 0
                    path      |-> f,
                    accessURL |-> NoURL,
                    printed   |-> 0,       \* diagnostics printed so far
                    out       |-> <<>>,    \* standard output
                    lpc       |-> "off",   \* the listener goroutine
                    exited    |-> FALSE,
                    code      |-> 0]

\* if serverPort < 1 || serverPort > 65535 { ...; os.Exit(1) }
ValidatePort ==
    /\ Alive /\ mainSt.pc = "port"
    /\ mainSt' = IF mainSt.port < 1 \/ mainSt.port > 65535
                 THEN Exit([mainSt EXCEPT !.out = Append(@, Line("main", "badport", NoURL))], 1)
                 ELSE [mainSt EXCEPT !.pc = "args"]
    /\ UNCHANGED <<file, openHandles, req, resp, net>>

\* if len(args) == 0 { printHelp(); os.Exit(0) }
CheckArgs ==
    /\ Alive /\ mainSt.pc = "args"
    /\ mainSt' = IF ~mainSt.hasPath
                 THEN Exit([mainSt EXCEPT !.out = Append(@, Line("main", "help", NoURL))], 0)
                 ELSE [mainSt EXCEPT !.pc = "file"]
    /\ UNCHANGED <<file, openHandles, req, resp, net>>

\* if _, err := os.Stat(videoFilePath); os.IsNotExist(err) { ...; os.Exit(1) }
CheckFile ==
    /\ Alive /\ mainSt.pc = "file"
    /\ mainSt' = IF mainSt.path = "missing"
                 THEN Exit([mainSt EXCEPT !.out = Append(@, Line("main", "nofile", NoURL))], 1)
                 ELSE [mainSt EXCEPT !.pc = "ip"]
    /\ UNCHANGED <<file, openHandles, req, resp, net>>

\* localIP, err := localIPString(); exit 1 on error, else build accessURL
ResolveIP ==
    /\ Alive /\ mainSt.pc = "ip"
    /\ LET m == localIPString(net)
       IN  /\ mainSt' = IF ~m.ok
                        THEN Exit([mainSt EXCEPT !.out = Append(@, Line("main", "noip", NoURL))], 1)
                        ELSE [mainSt EXCEPT !.pc = "go",
                                            !.accessURL = URL(IPString(m.ip), mainSt.port)]
           /\ net' = [net EXCEPT !.pc = "resolved",
                                 !.result = [called |-> TRUE, ok |-> m.ok, ip |-> m.ip]]
    /\ UNCHANGED <<file, openHandles, req, resp>>

\* go func() { err := http.ListenAndServe(...) ... }()
StartListener ==
    /\ Alive /\ mainSt.pc = "go"
    /\ mainSt' = [mainSt EXCEPT !.pc = "print", !.lpc = "listen"]
    /\ UNCHANGED <<file, openHandles, req, resp, net>>

\* The next fmt.Printf / fmt.Println / qrterminal.GenerateWithConfig of main;
\* after the last one main blocks in select {}.
PrintDiagnostic ==
    /\ Alive /\ mainSt.pc = "print"
    /\ LET k == mainSt.printed + 1
       IN  mainSt' = [mainSt EXCEPT
                        !.out = Append(@, Line("main", Diagnostics[k],
                                               DiagnosticURL(mainSt, Diagnostics[k]))),
                        !.printed = k,
                        !.pc = IF k = Len(Diagnostics) THEN "blocked" ELSE "print"]
    /\ UNCHANGED <<file, openHandles, req, resp, net>>

\* http.ListenAndServe binds the port and serves.
ListenOk ==
    /\ Alive /\ mainSt.lpc = "listen"
    /\ mainSt' = [mainSt EXCEPT !.lpc = "serving"]
    /\ UNCHANGED <<file, openHandles, req, resp, net>>

\* http.ListenAndServe returns its error: the bind failed, or the accept
\* loop failed later.
ListenFail ==
    /\ Alive /\ mainSt.lpc \in {"listen", "serving"}
    /\ mainSt' = [mainSt EXCEPT !.lpc = "failed"]
    /\ UNCHANGED <<file, openHandles, req, resp, net>>

\* fmt.Printf("\nService startup failed: %s\n", err.Error())
ListenerReport ==
    /\ Alive /\ mainSt.lpc = "failed"
    /\ mainSt' = [mainSt EXCEPT !.lpc = "reported",
                                !.out = Append(@, Line("listener", "failed", NoURL))]
    /\ UNCHANGED <<file, openHandles, req, resp, net>>

ListenerGivesUp(m) == [m EXCEPT !.lpc = "returned"]

\* os.Exit(1) in the listener goroutine
ListenerExits(m) == Exit([m EXCEPT !.lpc = "returned"], 1)

ListenerExit ==
    /\ Alive /\ mainSt.lpc = "reported"
    /\ mainSt' = ListenerExits(mainSt)
    /\ UNCHANGED <<file, openHandles, req, resp, net>>

ListenerStep == ListenerReport \/ ListenerExit

NextMain ==
    \/ ValidatePort \/ CheckArgs \/ CheckFile \/ ResolveIP
    \/ StartListener \/ PrintDiagnostic
    \/ ListenOk \/ ListenFail \/ ListenerReport \/ ListenerExit

\* The goroutine that runs the listener is scheduled: once ListenAndServe
\* has returned, its report and its exit are not postponed forever.
SpecMain == InitMain /\ [][NextMain]_vars /\ WF_vars(ListenerStep)

--------------------------------------------------------------------------
(* Properties of videoHandler *)

\* The header text  bytes={s}-{e}
RangeHeaderText(s, e) == BytesPrefix \o Decimal(s) \o <<"-">> \o Decimal(e)

Done(r) == req[r].pc = "done"

\* The request got past os.Open and file.Stat
ReachedRange(r) == req[r].fail \notin {"open", "stat"}

\* C1: a request with Range: bytes={s}-{e}, 0 <= s <= e < length, that met no
\* I/O failure is answered 206 with Content-Range bytes s-e/length,
\* Content-Length e-s+1 and a body that is bytes s..e of the file.
C1_ValidRangeServed ==
    \A r \in DOMAIN req :
        \A s \in 0..(Len(file) - 1) : \A e \in s..(Len(file) - 1) :
            (Done(r) /\ req[r].fail = "none" /\ req[r].header = RangeHeaderText(s, e))
            => /\ resp[r].status = 206
               /\ "Content-Range" \in DOMAIN resp[r].sent
               /\ resp[r].sent["Content-Range"] = ContentRange(s, e, Len(file))
               /\ "Content-Length" \in DOMAIN resp[r].sent
               /\ resp[r].sent["Content-Length"] = e - s + 1
               /\ resp[r].body = [i \in 1..(e - s + 1) |-> file[s + i]]
               /\ resp[r].errText = ""

C1_Witness ==
    \E r \in DOMAIN req :
        /\ Done(r) /\ req[r].fail = "none"
        /\ req[r].header = RangeHeaderText(1, 2)
        /\ Len(file) = 3
        /\ resp[r].status = 206
        /\ Len(resp[r].body) = 2

\* C2: a request with an empty or absent Range header that met no I/O
\* failure is answered 200 with Content-Length equal to the file's length,
\* Accept-Ranges: bytes, no Content-Range, and the whole file as body.
C2_FullContentServed ==
    \A r \in DOMAIN req :
        (Done(r) /\ req[r].fail = "none" /\ req[r].header = <<>>)
        => /\ resp[r].status = 200
           /\ DOMAIN resp[r].sent = {"Content-Length", "Accept-Ranges"}
           /\ resp[r].sent["Content-Length"] = Len(file)
           /\ resp[r].sent["Accept-Ranges"] = "bytes"
           /\ resp[r].body = file
           /\ resp[r].errText = ""

C2_Witness ==
    \E r \in DOMAIN req :
        /\ Done(r) /\ req[r].fail = "none" /\ req[r].header = <<>>
        /\ Len(file) = 2
        /\ resp[r].status = 200
        /\ resp[r].body = file

\* C3 (as claimed): every range used for a 206 response satisfies
\* 0 <= start <= end <= length-1.
C3_RangeWithinFile ==
    \A r \in DOMAIN req :
        resp[r].status = 206
        => LET cr == resp[r].sent["Content-Range"]
           IN  0 <= cr.start /\ cr.start <= cr.end /\ cr.end <= cr.size - 1

\* The text of the end field of a Range header: what lies between the first
\* and the second "-" (absent when there is no "-").
EndAbsentOrEmpty(h) ==
    LET parts == RangeParts(h) IN Len(parts) = 1 \/ parts[2] = <<>>

\* C4: for every accepted Range header the end used is length-1 when the
\* header's end is absent or empty and min(parsed end, length-1) otherwise;
\* the end in Content-Range never exceeds length-1.
C4_EndDefaultedAndClamped ==
    \A r \in DOMAIN req :
        resp[r].status = 206
        => LET cr   == resp[r].sent["Content-Range"]
               want == IF EndAbsentOrEmpty(req[r].header)
                       THEN Len(file) - 1
                       ELSE Min(ParseInt(RangeParts(req[r].header)[2]).val, Len(file) - 1)
           IN  /\ req[r].end = want
               /\ cr.end = want
               /\ cr.end <= Len(file) - 1

C4_Witness ==
    \E r \in DOMAIN req :
        /\ resp[r].status = 206
        /\ req[r].header = <<"b", "y", "t", "e", "s", "=", "1", "-", "2", "0">>
        /\ Len(file) = 3
        /\ resp[r].sent["Content-Range"].end = 2

\* The start field does not parse, or the end field is present, non-empty
\* and does not parse.
MalformedRange(h) ==
    LET parts == RangeParts(h)
    IN  \/ ~ParseInt(parts[1]).ok
        \/ Len(parts) > 1 /\ parts[2] # <<>> /\ ~ParseInt(parts[2]).ok

C5_Rejected ==
    \A r \in DOMAIN req :
        (Done(r) /\ ReachedRange(r) /\ req[r].header # <<>> /\ MalformedRange(req[r].header))
        => /\ resp[r].status = 400
           /\ "Content-Range" \notin DOMAIN resp[r].sent
           /\ resp[r].body = <<>>
           /\ req[r].handle = 0

C5_RejectionIsLocal ==
    \A r \in DOMAIN req :
        (req[r].pc = "range" /\ req'[r].pc = "done" /\ resp'[r].status = 400)
        => /\ file' = file
           /\ mainSt' = mainSt
           /\ openHandles' = openHandles \ {req[r].handle}
           /\ \A q \in (DOMAIN req) \ {r} : req'[q] = req[q] /\ resp'[q] = resp[q]

\* C5: a request that reaches range parsing with a non-empty Range header
\* whose start, or present non-empty end, does not parse is answered 400 with
\* no Content-Range header and no file bytes; the rejecting step leaves the
\* file, the process and every other request as they were and releases only
\* its own handle.
C5_MalformedRangeIs400 == []C5_Rejected /\ [][C5_RejectionIsLocal]_vars

C5_Witness ==
    \E r, q \in DOMAIN req :
        /\ r # q
        /\ Done(r)
        /\ req[r].header = <<"b", "y", "t", "e", "s", "=", "a", "b", "c", "-", "1", "0", "0">>
        /\ resp[r].status = 400
        /\ req[q].pc = "copyN"
        /\ openHandles = {req[q].handle}

\* C6 (as claimed): a failed open, a failed stat and a failed seek are each
\* answered with status 500.
C6_IOFailureIs500 ==
    \A r \in DOMAIN req :
        (Done(r) /\ req[r].fail \in {"open", "stat", "seek"}) => resp[r].status = 500

\* One range-spec of a Range header: digits, one "-", digits, with at least
\* one of the two numbers present.
IsRangeSpec(s) ==
    /\ Len(s) >= 2
    /\ Cardinality({i \in 1..Len(s) : s[i] = "-"}) = 1
    /\ \A i \in 1..Len(s) : s[i] \in Digits \cup {"-"}

\* bytes= followed by two or more comma-separated range-specs
IsMultiRange(h) ==
    /\ HasPrefix(h, BytesPrefix)
    /\ LET specs == Split(TrimPrefix(h, BytesPrefix), ",")
       IN  Len(specs) >= 2 /\ \A i \in 1..Len(specs) : IsRangeSpec(specs[i])

FirstSpec(h) == BytesPrefix \o Split(TrimPrefix(h, BytesPrefix), ",")[1]

\* C8 (as claimed): a multi-range header whose first range-spec is a valid
\* {s}-{e} is answered as the single-range request bytes={s}-{e} is.
C8_FirstPairHonored ==
    \A r \in DOMAIN req :
        \A s \in 0..(Len(file) - 1) : \A e \in s..(Len(file) - 1) :
            (Done(r) /\ req[r].fail = "none" /\ IsMultiRange(req[r].header)
                /\ FirstSpec(req[r].header) = RangeHeaderText(s, e))
            => /\ resp[r].status = 206
               /\ resp[r].sent["Content-Range"] = ContentRange(s, e, Len(file))
               /\ resp[r].body = [i \in 1..(e - s + 1) |-> file[s + i]]

\* C8 (amended): a multi-range header is rejected with 400 and no range of
\* it is honored.
C8_MultiRangeRejected ==
    \A r \in DOMAIN req :
        (Done(r) /\ ReachedRange(r) /\ IsMultiRange(req[r].header))
        => /\ resp[r].status = 400
           /\ "Content-Range" \notin DOMAIN resp[r].sent
           /\ resp[r].body = <<>>

C8_Witness ==
    \E r \in DOMAIN req :
        /\ Done(r) /\ ReachedRange(r)
        /\ req[r].header = <<"b", "y", "t", "e", "s", "=", "0", "-", "1", "0", ",", "2", "0", "-", "3", "0">>
        /\ resp[r].status = 400

\* C7: each request in flight past a successful open holds a handle of its
\* own; no two requests hold the same handle; every open handle is held by a
\* request in flight, so none stays open once the requests have returned; a
\* request that has returned, or whose open failed, holds none.
C7_HandlePerRequest ==
    /\ \A r \in DOMAIN req :
          /\ req[r].pc \in {"stat", "range", "seek", "copyN"}
                => req[r].handle # 0 /\ req[r].handle \in openHandles
          /\ req[r].pc \in {"idle", "open", "done"} => req[r].handle = 0
          /\ req[r].fail = "open" => req[r].handle = 0
    /\ \A r, q \in DOMAIN req :
          (r # q /\ req[r].handle # 0) => req[r].handle # req[q].handle
    /\ openHandles = {req[r].handle : r \in {q \in DOMAIN req : req[q].handle # 0}}
    /\ (\A r \in DOMAIN req : req[r].pc \in {"idle", "done"}) => openHandles = {}

C7_Witness ==
    \E r, q \in DOMAIN req :
        /\ r # q
        /\ Done(r) /\ resp[r].status = 400
        /\ req[q].pc = "copyN" /\ req[q].handle = 2
        /\ openHandles = {2}

--------------------------------------------------------------------------
(* Properties of main and of the resolver *)

MainLines == SelectSeq(mainSt.out, LAMBDA l : l.src = "main")

\* When main blocks, it has printed every diagnostic, in order, with the
\* URLs built from the resolved address and the port.
C9_DiagnosticsComplete ==
    mainSt.pc = "blocked"
    => /\ Len(MainLines) = Len(Diagnostics)
       /\ \A k \in 1..Len(Diagnostics) :
             /\ MainLines[k].item = Diagnostics[k]
             /\ Diagnostics[k] \in {"lan", "qr"}
                   => MainLines[k].url = URL(IPString(net.result.ip), mainSt.port)
             /\ Diagnostics[k] = "local"
                   => MainLines[k].url = URL(Localhost, mainSt.port)

\* Main's next diagnostic can be printed whatever the listener is doing.
C9_NoWaitForListener ==
    (Alive /\ mainSt.pc = "print") => ENABLED PrintDiagnostic

\* An exit taken by the listener goroutine is non-zero.
C9_ExitOnlyNonZero ==
    (mainSt.exited /\ mainSt.lpc = "returned") => mainSt.code # 0

ListenerFailed == mainSt.lpc \in {"failed", "reported"}

\* C9: once started, the listener runs beside main: main prints every
\* diagnostic whatever the listener's state, and a listener failure leads to
\* the exit of the process with a non-zero code, whether main is still
\* printing or already blocked.
C9_ListenerInBackground ==
    /\ [](C9_DiagnosticsComplete /\ C9_NoWaitForListener /\ C9_ExitOnlyNonZero)
    /\ (ListenerFailed ~> (mainSt.exited /\ mainSt.code # 0))

C9_Witness ==
    /\ mainSt.exited /\ mainSt.code = 1 /\ mainSt.lpc = "returned"
    /\ mainSt.pc = "blocked"
    /\ Len(MainLines) = Len(Diagnostics)

\* The address is on an up interface whose addresses could be read, is an
\* IPv4 address with its mask, is not loopback, is global unicast, and its
\* subnet contains the gateway.
Qualifies(i, a, gw) ==
    /\ i.up /\ ~i.addrsErr
    /\ a.kind = "IPNet"
    /\ a.ip.fam = "v4"
    /\ a.ip.oct[1] # 127
    /\ IsGlobalUnicast(a.ip)
    /\ Contains(a, gw)

\* C10: given a gateway and the interface list, the resolver returns only an
\* IPv4 address that is on an up interface, not loopback, global unicast and
\* in a subnet containing the gateway; it returns one whenever an up interface
\* whose addresses could be read has one, whatever the other interfaces do;
\* it fails exactly when there is none.
C10_GatewaySubnetAddress ==
    (net.pc = "resolved" /\ net.gwOk /\ ~net.ifacesErr)
    => LET found(ip) ==
               \E n \in 1..Len(net.ifaces) :
                   \E k \in 1..Len(net.ifaces[n].addrs) :
                       /\ Qualifies(net.ifaces[n], net.ifaces[n].addrs[k], net.gw)
                       /\ net.ifaces[n].addrs[k].ip = ip
           some ==
               \E n \in 1..Len(net.ifaces) :
                   \E k \in 1..Len(net.ifaces[n].addrs) :
                       Qualifies(net.ifaces[n], net.ifaces[n].addrs[k], net.gw)
       IN  /\ net.result.ok => found(net.result.ip)
           /\ net.result.ok <=> some

C10_Witness ==
    /\ net.pc = "resolved" /\ net.gwOk /\ ~net.ifacesErr
    /\ Len(net.ifaces) = 2
    /\ net.ifaces[1].up /\ net.ifaces[1].addrsErr
    /\ net.ifaces[2].addrs = <<LinkLocal6, Lan2>>
    /\ net.result.ok
    /\ net.result.ip = V4(192, 168, 1, 20)

====
